---- MODULE Spec2Model ----
(***************************************************************************)
(* garmin-health-sync: the background scheduler (SyncScheduler), the sync  *)
(* orchestrator (syncGarminData), the Garmin client session handling and   *)
(* the sync_log bookkeeping of the HTTP entry points.                      *)
(*                                                                         *)
(* The program runs on one JavaScript event loop: a handler (an HTTP       *)
(* request, a timer callback, the continuation of an awaited network       *)
(* call) runs to its next await on network I/O without interruption.  One  *)
(* action of this model is one such uninterrupted stretch.  Handlers are   *)
(* written as functions from the program state (a record, World) to the    *)
(* program state, so that the calls a handler makes compose in the order   *)
(* of the code; Commit assigns the result to the variables.                *)
(***************************************************************************)
EXTENDS Integers, Sequences, FiniteSets, TLC

(* ------------------------------ bounds -------------------------------- *)

\* The clock stops at MaxNow (milliseconds).
MaxNow == 2000

\* Cap on in-flight runs plus pending timers; start(), triggerNow() and
\* POST /sync are not taken beyond it.
MaxLoad == 2

\* Cap on the sessions the external service issues (successful logins).
MaxCookies == 2

\* Cap on the rows of sync_log (POST /sync is not taken beyond it).
MaxLogs == 2

\* The number of days of the daily window the model walks through.
WindowDays == 1

(* -------------------------- program constants ------------------------- *)

\* 7 * 24 * 60 * 60 * 1000: the age at which a stored session expires.
SESSION_TTL == 604800000

\* Milliseconds of one calendar day.
DAY_MS == 86400000

\* The key of the session row of the meta table.
SessionKey == "garmin_session"

\* options.intervalMs of the scheduler under test.
intervalMs == 1000

\* One clock step, in milliseconds: the clock is read once per interval.
TickMs == intervalMs

\* Absent values: a null Date, a null timer handle, no sync_log row.
NoTime == -1
NoTimer == 0
NoLog == 0

RunIds == 1..MaxLoad
TimerIds == 1..MaxLoad

\* Values an onSync stub rejects with: an Error, and a thrown non-Error.
Thrown ==
  { [isError |-> TRUE, message |-> "Sync failed"],
    [isError |-> FALSE, message |-> "boom"] }

NoError == [isError |-> FALSE, message |-> ""]

\* What the external service answers to a request: 200 with a payload,
\* 401/403, or any other failure (non-2xx status, transport error).
Responses == {"ok", "unauthorized", "apierror"}

\* What the service answers to the successive activity-list fetches of one
\* invocation of syncGarminData, first fetch first.
ActivityScripts ==
  { <<"ok">>, <<"apierror">>,
    <<"unauthorized", "ok">>, <<"unauthorized", "unauthorized">> }

\* Activity lists the service returns (activity ids).
ActivityLists == { << >>, <<1>> }

\* The days a sync can ask for: today and the days before it.
DayKeys == { d - i : d \in 0..(MaxNow \div DAY_MS), i \in 0..(WindowDays - 1) }

\* An account without daily summaries: every summary fetch is absent.
NoSummaries == [d \in DayKeys |-> "null"]

\* The failures the service answers with: 401/403 and any other failure.
Faults == {"unauthorized", "apierror"}

\* An account without daily data, on a service that may fail any request.
EmptyAccount(list) ==
  [ activities |-> list,
    summary |-> NoSummaries,
    subs |-> [d \in DayKeys |-> {}],
    dailyFaults |-> Faults ]

\* How a login handshake ends.
LoginOutcomes == {"ok", "noTicket", "noSessionCookie", "transportError"}

\* The four fetches of Promise.all for a day with a summary.
SubFetches == {"hrv", "sleep", "bodyBattery", "stress"}

NoCookies == 0

\* The window of the specification of the data of one sync.
DataDays == WindowDays + 2

\* The days of that window, today (day 0) first.
DataDayKeys == { 0 - i : i \in 0..(DataDays - 1) }

\* What the account holds for a day: everything; everything but sleep data;
\* a summary and nothing else; no summary (and the other data).
DayTypes == {"full", "noSleep", "summaryOnly", "none"}

summaryOf(type) == IF type = "none" THEN "null" ELSE "summary"

subsOf(type) ==
  CASE type = "noSleep" -> SubFetches \ {"sleep"}
    [] type = "summaryOnly" -> {}
    [] OTHER -> SubFetches

\* An account with daily data, on a service that answers the daily fetches.
DataAccounts ==
  { [ activities |-> list,
      summary |-> [d \in DataDayKeys |-> summaryOf(t[d])],
      subs |-> [d \in DataDayKeys |-> subsOf(t[d])],
      dailyFaults |-> {} ] :
    list \in ActivityLists, t \in [DataDayKeys -> DayTypes] }

(* ------------------------------- state -------------------------------- *)

VARIABLES
  now,          \* Date.now()
  timeouts,     \* timers armed with setTimeout and not yet fired or cleared
  onSync,       \* options.onSync: "stub" (any async function) or "syncGarminData"
  onError,      \* whether options.onError was given
  isRunning,    \* SyncScheduler.isRunning: the scheduler is enabled
  timer,        \* SyncScheduler.timer: the handle of the last armed timer
  lastSyncAt,   \* SyncScheduler.lastSyncAt
  nextSyncAt,   \* SyncScheduler.nextSyncAt
  lastEvent,    \* the event the scheduler emitted last
  runs,         \* invocations of onSync / syncGarminData that have not ended
  finished,     \* the invocation that ended last (a sequence of length <= 1)
  credentials,  \* GARMIN_USERNAME && GARMIN_PASSWORD
  meta,         \* table meta: key -> value
  sessionCookies, \* GarminConnectClient.sessionCookies
  authed,       \* GarminConnectClient.authed
  issued,       \* the external service: the last session it issued
  rejected,     \* the external service: cookies it has answered 401/403 to
  activities,   \* table activities: id -> row
  daily_metrics, \* table daily_metrics: day -> row
  sync_log,     \* table sync_log: row id -> row
  remote,       \* the external service: the data of the Garmin account
  windowDays,   \* the length of the daily window (`i < 30` in the source)
  storage       \* the database file: "ok", or "failing" (a write may throw)

vars ==
  << now, timeouts, onSync, onError, isRunning, timer, lastSyncAt,
     nextSyncAt, lastEvent, runs, finished, credentials, meta,
     sessionCookies, authed, issued, rejected, activities, daily_metrics,
     sync_log, remote, windowDays, storage >>

World ==
  [ now |-> now, timeouts |-> timeouts, onSync |-> onSync, onError |-> onError,
    isRunning |-> isRunning, timer |-> timer, lastSyncAt |-> lastSyncAt,
    nextSyncAt |-> nextSyncAt, lastEvent |-> lastEvent, runs |-> runs,
    finished |-> finished, credentials |-> credentials, meta |-> meta,
    sessionCookies |-> sessionCookies, authed |-> authed, issued |-> issued,
    rejected |-> rejected, activities |-> activities,
    daily_metrics |-> daily_metrics, sync_log |-> sync_log,
    remote |-> remote, windowDays |-> windowDays, storage |-> storage ]

\* The handler's result v becomes the next state.
Commit(w) ==
  \E v \in {w} :
    /\ now' = v.now
    /\ timeouts' = v.timeouts
    /\ onSync' = v.onSync
    /\ onError' = v.onError
    /\ isRunning' = v.isRunning
    /\ timer' = v.timer
    /\ lastSyncAt' = v.lastSyncAt
    /\ nextSyncAt' = v.nextSyncAt
    /\ lastEvent' = v.lastEvent
    /\ runs' = v.runs
    /\ finished' = v.finished
    /\ credentials' = v.credentials
    /\ meta' = v.meta
    /\ sessionCookies' = v.sessionCookies
    /\ authed' = v.authed
    /\ issued' = v.issued
    /\ rejected' = v.rejected
    /\ activities' = v.activities
    /\ daily_metrics' = v.daily_metrics
    /\ sync_log' = v.sync_log
    /\ remote' = v.remote
    /\ windowDays' = v.windowDays
    /\ storage' = v.storage

\* F(x), with x evaluated once.
Bind(x, F(_)) == CHOOSE y \in { F(v) : v \in {x} } : TRUE

NoRows == [k \in {} |-> 0]

NoRuns == [r \in {} |-> 0]

Pending(w) == { t.id : t \in w.timeouts }

Load(w) == Cardinality(DOMAIN w.runs) + Cardinality(w.timeouts)

(* ---------------------------- host timers ----------------------------- *)

\* setTimeout returns a handle that no pending timer has.
FreshTimer(w) ==
  CHOOSE i \in TimerIds :
    /\ i \notin Pending(w)
    /\ \A j \in TimerIds : j < i => j \in Pending(w)

clearTimeout(w, id) ==
  [w EXCEPT !.timeouts = { t \in @ : t.id # id }]

(* ------------------------- SyncScheduler ------------------------------ *)

\* this.emit(event, arg): lastEvent is the name; a run keeps the events of
\* its runSync with the Error they carry (NoError for the other payloads).
emit(w, r, event, arg) ==
  [w EXCEPT !.lastEvent = event,
            !.runs = IF r \in DOMAIN w.runs
                       THEN [@ EXCEPT ![r].events =
                               Append(@, [name |-> event, error |-> arg])]
                       ELSE @]

\* scheduleNext that records nextSyncAt and arms no timer.
scheduleNext_noTimer(w) ==
  IF ~w.isRunning
    THEN w
    ELSE [w EXCEPT !.nextSyncAt = w.now + intervalMs]

\* scheduleNext without its guard `if (!this.isRunning) return`.
scheduleNext_noGuard(w) ==
  Bind(w, LAMBDA v :
    Bind(FreshTimer(v), LAMBDA id :
      [v EXCEPT !.nextSyncAt = v.now + intervalMs,
                !.timer = id,
                !.timeouts = @ \cup {[id |-> id, at |-> v.now + intervalMs]}]))

scheduleNext(w) ==
  Bind(w, LAMBDA v :
    IF ~v.isRunning
      THEN v
      ELSE Bind(FreshTimer(v), LAMBDA id :
             [v EXCEPT !.nextSyncAt = v.now + intervalMs,
                       !.timer = id,
                       !.timeouts = @ \cup {[id |-> id, at |-> v.now + intervalMs]}]))

\* start without its guard `if (this.isRunning) return`.
start_noGuard(w) ==
  emit(scheduleNext([w EXCEPT !.isRunning = TRUE]), 0, "started", NoError)

start(w) ==
  IF w.isRunning
    THEN w
    ELSE emit(scheduleNext([w EXCEPT !.isRunning = TRUE]), 0, "started", NoError)

\* stop() that leaves the scheduler enabled while a run is in flight.
stop_whenIdle(w) ==
  IF ~w.isRunning \/ DOMAIN w.runs # {}
    THEN w
    ELSE LET w1 == IF w.timer # NoTimer
                     THEN [clearTimeout(w, w.timer) EXCEPT !.timer = NoTimer]
                     ELSE w
         IN emit([w1 EXCEPT !.isRunning = FALSE, !.nextSyncAt = NoTime],
                 0, "stopped", NoError)

stop(w) ==
  IF ~w.isRunning
    THEN w
    ELSE LET w1 == IF w.timer # NoTimer
                     THEN [clearTimeout(w, w.timer) EXCEPT !.timer = NoTimer]
                     ELSE w
         IN emit([w1 EXCEPT !.isRunning = FALSE, !.nextSyncAt = NoTime],
                 0, "stopped", NoError)

\* new Error(String(error)) for a thrown value that is not an Error.
toError(v) == IF v.isError THEN v ELSE [isError |-> TRUE, message |-> v.message]

\* The invocation r has ended: it leaves runs and becomes finished.
retire(w, r, outcome, error, settled) ==
  Bind(w, LAMBDA v :
    [v EXCEPT
       !.finished = << [ via |-> v.runs[r].via,
                         events |-> v.runs[r].events,
                         onErrorCalls |-> v.runs[r].onErrorCalls,
                         outcome |-> outcome,
                         error |-> error,
                         settled |-> settled,
                         logId |-> v.runs[r].logId,
                         svc |-> v.runs[r].svc,
                         calls |-> v.runs[r].calls,
                         details |-> v.runs[r].details,
                         days |-> v.runs[r].days,
                         activitiesSynced |-> v.runs[r].activitiesSynced,
                         daysSynced |-> v.runs[r].daysSynced ] >>,
       !.runs = [x \in DOMAIN v.runs \ {r} |-> v.runs[x]]])

\* this.onError called a second time.
callOnError_twice(w, r, err) ==
  IF w.onError
    THEN [w EXCEPT !.runs[r].onErrorCalls = Append(Append(@, err), err)]
    ELSE w

callOnError(w, r, err) ==
  IF w.onError
    THEN [w EXCEPT !.runs[r].onErrorCalls = Append(@, err)]
    ELSE w

\* runSync with scheduleNext() at the end of the try block instead of in a
\* finally block.
runSyncSettled_noFinally(w, r, ok, thrown) ==
  LET w1 == IF ok
              THEN scheduleNext(emit([w EXCEPT !.lastSyncAt = w.now], r,
                                     "sync:success", NoError))
              ELSE LET err == toError(thrown)
                   IN callOnError(emit(w, r, "sync:error", err), r, err)
  IN retire(w1, r, IF ok THEN "resolved" ELSE "rejected",
            IF ok THEN NoError ELSE thrown, "fulfilled")

\* runSync with the emit of 'sync:success' in the finally block.
runSyncSettled_successInFinally(w, r, ok, thrown) ==
  LET w1 == IF ok
              THEN [w EXCEPT !.lastSyncAt = w.now]
              ELSE LET err == toError(thrown)
                   IN callOnError(emit(w, r, "sync:error", err), r, err)
      w2 == scheduleNext(emit(w1, r, "sync:success", NoError))
  IN retire(w2, r, IF ok THEN "resolved" ELSE "rejected",
            IF ok THEN NoError ELSE thrown, "fulfilled")

\* runSync after `await this.onSync()` has settled: the rest of the try
\* block or the catch block, then the finally block.
runSyncSettled(w, r, ok, thrown) ==
  LET w1 == IF ok
              THEN emit([w EXCEPT !.lastSyncAt = w.now], r, "sync:success",
                        NoError)
              ELSE LET err == toError(thrown)
                   IN callOnError(emit(w, r, "sync:error", err), r, err)
      w2 == scheduleNext(w1)
  IN retire(w2, r, IF ok THEN "resolved" ELSE "rejected",
            IF ok THEN NoError ELSE thrown, "fulfilled")

(* ------------------------- POST /sync: sync_log ------------------------ *)

\* POST /sync without the UPDATE of the catch block.
postSyncSettled_noCatch(w, r, ok, thrown) ==
  LET logId == w.runs[r].logId
      w1 == IF ok
              THEN [w EXCEPT !.sync_log[logId] =
                      [@ EXCEPT !.endedAt = w.now,
                                !.status = "success",
                                !.details = "Synced",
                                !.activities = w.runs[r].activitiesSynced,
                                !.days = w.runs[r].daysSynced]]
              ELSE w
  IN retire(w1, r, IF ok THEN "resolved" ELSE "rejected",
            IF ok THEN NoError ELSE thrown, "fulfilled")

\* POST /sync with a fixed text for the details of a failed sync.
postSyncSettled_fixedDetails(w, r, ok, thrown) ==
  LET logId == w.runs[r].logId
      w1 == [w EXCEPT !.sync_log[logId] =
               [@ EXCEPT !.endedAt = w.now,
                         !.status = IF ok THEN "success" ELSE "error",
                         !.details = IF ok THEN "Synced" ELSE "Sync failed",
                         !.activities = IF ok THEN w.runs[r].activitiesSynced ELSE @,
                         !.days = IF ok THEN w.runs[r].daysSynced ELSE @]]
  IN retire(w1, r, IF ok THEN "resolved" ELSE "rejected",
            IF ok THEN NoError ELSE thrown, "fulfilled")

\* The UPDATE of the sync_log row in the try and in the catch block of the
\* POST /sync handler, and the response.
postSyncSettled(w, r, ok, thrown) ==
  LET logId == w.runs[r].logId
      w1 == [w EXCEPT !.sync_log[logId] =
               [@ EXCEPT !.endedAt = w.now,
                         !.status = IF ok THEN "success" ELSE "error",
                         !.details = IF ok THEN "Synced" ELSE thrown.message,
                         !.activities = IF ok THEN w.runs[r].activitiesSynced ELSE @,
                         !.days = IF ok THEN w.runs[r].daysSynced ELSE @]]
  IN retire(w1, r, IF ok THEN "resolved" ELSE "rejected",
            IF ok THEN NoError ELSE thrown, "fulfilled")

(* --------------------------- GarminConnectClient ----------------------- *)

\* loadSessionFromDb with `<=` for `<` in the age test.
loadSessionFromDb_inclusive(w) ==
  LET valid == /\ SessionKey \in DOMAIN w.meta
               /\ w.now - w.meta[SessionKey].timestamp <= SESSION_TTL
  IN [ ok |-> valid,
       w |-> IF valid
               THEN [w EXCEPT !.sessionCookies = w.meta[SessionKey].cookies,
                              !.authed = TRUE]
               ELSE w ]

\* loadSessionFromDb: the result and the state it leaves.
loadSessionFromDb(w) ==
  LET valid == /\ SessionKey \in DOMAIN w.meta
               /\ w.now - w.meta[SessionKey].timestamp < SESSION_TTL
  IN [ ok |-> valid,
       w |-> IF valid
               THEN [w EXCEPT !.sessionCookies = w.meta[SessionKey].cookies,
                              !.authed = TRUE]
               ELSE w ]

\* INSERT OR REPLACE INTO meta: the value of the key is the new value.
insertMeta(w, key, value) ==
  [w EXCEPT !.meta = (key :> value) @@ @]

\* A login that deletes the stored session when the handshake fails.
login_forgetsOnFailure(w, outcome) ==
  IF outcome = "ok"
    THEN LET cookies == w.issued + 1
         IN [ ok |-> TRUE,
              w |-> insertMeta([w EXCEPT !.issued = cookies,
                                         !.sessionCookies = cookies,
                                         !.authed = TRUE],
                               SessionKey,
                               [cookies |-> cookies, timestamp |-> w.now]) ]
    ELSE [ ok |-> FALSE, w |-> [w EXCEPT !.meta = NoRows] ]

\* login, from the response of validate-ticket on: the result and the state.
login(w, outcome) ==
  IF outcome = "ok"
    THEN LET cookies == w.issued + 1
         IN [ ok |-> TRUE,
              w |-> insertMeta([w EXCEPT !.issued = cookies,
                                         !.sessionCookies = cookies,
                                         !.authed = TRUE],
                               SessionKey,
                               [cookies |-> cookies, timestamp |-> w.now]) ]
    ELSE [ ok |-> FALSE, w |-> w ]

\* request, after the response arrived: 401/403 clears authed.
received(w, r, resp) ==
  IF resp = "unauthorized"
    THEN [w EXCEPT !.authed = FALSE,
                   !.rejected = @ \cup {w.runs[r].cookie}]
    ELSE w

\* request, up to `await fetch(url, ...)`: the invocation waits at pc for
\* the response to a request that carries the current cookies.
await(w, r, pc) ==
  [w EXCEPT !.runs[r].pc = pc, !.runs[r].cookie = w.sessionCookies]

(* ----------------------------- syncGarminData -------------------------- *)

\* syncGarminData has returned (ok) or thrown: the caller's continuation.
syncEnded(w, r, ok, message) ==
  IF w.runs[r].via = "post"
    THEN postSyncSettled(w, r, ok, [isError |-> TRUE, message |-> message])
    ELSE runSyncSettled(w, r, ok, [isError |-> TRUE, message |-> message])

\* The message of the error a statement's run() throws when the write fails.
StorageError == "database is locked"

\* How a write may end on the storage of w.
Writes(w) == IF w.storage = "failing" THEN {"written", "throws"} ELSE {"written"}

\* The columns insertActivity.run binds: the detail columns are
\* `detail?.x ?? null`.
activityRow(detail) == [provider |-> "garmin", detail |-> detail]

\* An upsert that keeps an existing row's detail columns where the new
\* record has none.
insertActivity_merge(w, id, detail) ==
  LET kept == IF detail = "null" /\ id \in DOMAIN w.activities
                THEN w.activities[id].detail
                ELSE detail
  IN [w EXCEPT !.activities = (id :> activityRow(kept)) @@ @]

\* An upsert that inserts the key alone when it is new and binds the
\* detail columns only when the key exists.
insertActivity_insertElseUpdate(w, id, detail) ==
  IF id \in DOMAIN w.activities
    THEN [w EXCEPT !.activities = (id :> activityRow(detail)) @@ @]
    ELSE [w EXCEPT !.activities = (id :> activityRow("null")) @@ @]

\* INSERT OR REPLACE INTO activities: the row of the key is the new row.
insertActivity(w, id, detail) ==
  [w EXCEPT !.activities = (id :> activityRow(detail)) @@ @]

\* The columns insertDaily.run binds from the four fetches: `x?.y ?? null`.
dailyRow(got) ==
  [hrv |-> got.hrv, sleep |-> got.sleep, bodyBattery |-> got.bodyBattery,
   stress |-> got.stress]

\* INSERT OR REPLACE INTO daily_metrics: the row of the key is the new row.
insertDaily(w, day, got) ==
  [w EXCEPT !.daily_metrics = (day :> dailyRow(got)) @@ @]

NoneGot == [f \in SubFetches |-> "null"]

\* dateStr of the i-th iteration of the daily loop, as a day number.
dateStr(w, r, i) == (w.runs[r].today \div DAY_MS) - i

\* The invocation notes what getDailySummary returned to it for day i (and
\* with daySynced, what the four other fetches of the day returned).
dayFetched(w, r, i, summary) ==
  [w EXCEPT !.runs[r].days =
     Append(@, [day |-> dateStr(w, r, i), summary |-> summary,
                got |-> NoneGot])]

RECURSIVE dayLoop(_, _, _)
\* The loop over the daily window from day i on, up to the next await.
dayLoop(w, r, i) ==
  IF i >= w.windowDays
    THEN syncEnded(w, r, TRUE, "")
    ELSE IF ~w.authed
      THEN dayLoop(dayFetched(w, r, i, "null"), r, i + 1)
      ELSE await([w EXCEPT !.runs[r].i = i], r, "summary")

\* The key insertDaily.run binds, `summary.calendarDate || dateStr`: the
\* calendarDate of the payload; of the payloads of the model, "summary" has
\* the date that was asked for, "summaryOfDayBefore" the date before it.
dailyKey(summary, date) ==
  IF summary = "summaryOfDayBefore" THEN date - 1 ELSE date

\* A daily loop that writes and counts a day only if it has sleep data.
daySynced_needsSleep(w, r) ==
  LET run == w.runs[r]
      day == dailyKey(run.days[Len(run.days)].summary,
                      (run.today \div DAY_MS) - run.i)
      w1 == [w EXCEPT !.runs[r].days[Len(run.days)].got = run.got]
  IN IF run.got.sleep = "null"
       THEN dayLoop(w1, r, run.i + 1)
       ELSE dayLoop([insertDaily(w1, day, run.got)
                       EXCEPT !.runs[r].daysSynced = @ + 1], r, run.i + 1)

\* The row of day i is written and counted; on to the next day.
daySynced(w, r) ==
  LET run == w.runs[r]
      day == dailyKey(run.days[Len(run.days)].summary,
                      (run.today \div DAY_MS) - run.i)
      w1 == insertDaily([w EXCEPT !.runs[r].days[Len(run.days)].got = run.got],
                        day, run.got)
  IN dayLoop([w1 EXCEPT !.runs[r].daysSynced = @ + 1], r, run.i + 1)

\* The daily loop without `if (summary)`.
summaryReturned_noSkip(w, r, summary) ==
  LET w1 == dayFetched(w, r, w.runs[r].i, summary)
  IN IF ~w1.authed
       THEN daySynced([w1 EXCEPT !.runs[r].got = NoneGot], r)
       ELSE await([w1 EXCEPT !.runs[r].got = NoneGot,
                             !.runs[r].pending = SubFetches], r, "subs")

\* A daily loop that takes the sync for up to date, and ends it, at the first
\* day that already has a row.
summaryReturned_stopAtStored(w, r, summary) ==
  LET w1 == dayFetched(w, r, w.runs[r].i, summary)
  IN IF dateStr(w, r, w.runs[r].i) \in DOMAIN w.daily_metrics
       THEN syncEnded(w1, r, TRUE, "")
       ELSE IF summary = "null"
         THEN dayLoop(w1, r, w.runs[r].i + 1)
         ELSE IF ~w1.authed
           THEN daySynced([w1 EXCEPT !.runs[r].got = NoneGot], r)
           ELSE await([w1 EXCEPT !.runs[r].got = NoneGot,
                                 !.runs[r].pending = SubFetches], r, "subs")

\* getDailySummary has returned for day i.
summaryReturned(w, r, summary) ==
  LET w1 == dayFetched(w, r, w.runs[r].i, summary)
  IN IF summary = "null"
       THEN dayLoop(w1, r, w.runs[r].i + 1)
       ELSE IF ~w1.authed
         THEN daySynced([w1 EXCEPT !.runs[r].got = NoneGot], r)
         ELSE await([w1 EXCEPT !.runs[r].got = NoneGot,
                               !.runs[r].pending = SubFetches], r, "subs")

\* A daily loop that writes the row of the day when the first of the four
\* fetches has returned.
subReturned_firstWins(w, r, f, payload, write) ==
  LET w1 == [w EXCEPT !.runs[r].got[f] = payload,
                      !.runs[r].pending = @ \ {f}]
  IN IF write = "throws"
       THEN syncEnded(w1, r, FALSE, StorageError)
       ELSE daySynced(w1, r)

\* One of the four fetches of Promise.all has returned; after the last of
\* them insertDaily.run writes the row, or throws.
subReturned(w, r, f, payload, write) ==
  LET w1 == [w EXCEPT !.runs[r].got[f] = payload,
                      !.runs[r].pending = @ \ {f}]
  IN IF w1.runs[r].pending # {}
       THEN w1
       ELSE IF write = "throws"
         THEN syncEnded(w1, r, FALSE, StorageError)
         ELSE daySynced(w1, r)

RECURSIVE activityLoop(_, _, _)
\* The loop over the fetched activities from the i-th on, up to the next await.
activityLoop(w, r, i) ==
  IF i > Len(w.runs[r].acts)
    THEN dayLoop([w EXCEPT !.runs[r].today = w.now], r, 0)
    ELSE IF ~w.authed
      THEN activityLoop(
             [insertActivity(w, w.runs[r].acts[i], "null")
                EXCEPT !.runs[r].activitiesSynced = @ + 1,
                       !.runs[r].details = Append(@, "null")], r, i + 1)
      ELSE await([w EXCEPT !.runs[r].i = i], r, "detail")

\* An activity loop that passes over an activity whose detail is absent.
detailReturned_needsDetail(w, r, detail, write) ==
  LET run == w.runs[r]
      w1 == insertActivity(w, run.acts[run.i], detail)
  IN IF detail = "null"
       THEN activityLoop([w EXCEPT !.runs[r].details = Append(@, detail)],
                         r, run.i + 1)
       ELSE IF write = "throws"
         THEN syncEnded(w, r, FALSE, StorageError)
         ELSE activityLoop([w1 EXCEPT !.runs[r].activitiesSynced = @ + 1,
                                      !.runs[r].details = Append(@, detail)],
                           r, run.i + 1)

\* getActivityDetail has returned for the i-th activity; insertActivity.run
\* writes the row, or throws.
detailReturned(w, r, detail, write) ==
  LET run == w.runs[r]
      w1 == insertActivity(w, run.acts[run.i], detail)
  IN IF write = "throws"
       THEN syncEnded(w, r, FALSE, StorageError)
       ELSE activityLoop([w1 EXCEPT !.runs[r].activitiesSynced = @ + 1,
                                    !.runs[r].details = Append(@, detail)],
                         r, run.i + 1)

\* garmin.getActivities(50), up to the await of its request.
getActivities(w, r) ==
  IF ~w.authed
    THEN syncEnded(w, r, FALSE, "Not authenticated")
    ELSE await([w EXCEPT !.runs[r].calls = Append(@, "getActivities")],
               r, "activities")

\* A sync that goes on to the daily window as soon as it has the activity
\* list, before the activities are fetched and written.
activitiesReturned_daysFirst(w, r, resp, list) ==
  LET w1 == received(w, r, resp)
  IN CASE resp = "unauthorized" ->
            syncEnded([w1 EXCEPT !.runs[r].calls = Append(@, "SessionExpired")],
                      r, FALSE, "Session expired")
       [] resp = "apierror" -> syncEnded(w1, r, FALSE, "API error")
       [] OTHER -> dayLoop([w1 EXCEPT !.runs[r].acts = list,
                                      !.runs[r].today = w.now], r, 0)

\* The activity-list request has been answered.
activitiesReturned(w, r, resp, list) ==
  LET w1 == received(w, r, resp)
  IN CASE resp = "unauthorized" ->
            syncEnded([w1 EXCEPT !.runs[r].calls = Append(@, "SessionExpired")],
                      r, FALSE, "Session expired")
       [] resp = "apierror" -> syncEnded(w1, r, FALSE, "API error")
       [] OTHER -> activityLoop([w1 EXCEPT !.runs[r].acts = list], r, 1)

\* A sync that calls garmin.login once more when it has returned false.
loginReturned_retry(w, r, outcome) ==
  LET res == login(w, outcome)
  IN IF ~res.ok
       THEN IF w.runs[r].calls = <<"login">>
              THEN [res.w EXCEPT !.runs[r].calls = Append(@, "login")]
              ELSE syncEnded([res.w EXCEPT !.runs[r].calls = Append(@, "loginFailed")],
                             r, FALSE, "Garmin authentication failed")
       ELSE getActivities(res.w, r)

\* garmin.login has returned.
loginReturned(w, r, outcome) ==
  LET res == login(w, outcome)
  IN IF ~res.ok
       THEN syncEnded([res.w EXCEPT !.runs[r].calls = Append(@, "loginFailed")],
                      r, FALSE, "Garmin authentication failed")
       ELSE getActivities(res.w, r)

\* syncGarminData without the test of the credentials before login.
syncGarminData_noCredentialsTest(w, r) ==
  LET res == loadSessionFromDb(w)
  IN IF res.ok
       THEN getActivities(res.w, r)
       ELSE [res.w EXCEPT !.runs[r].pc = "login",
                          !.runs[r].calls = Append(@, "login")]

\* syncGarminData from its entry to its first await.
syncGarminData(w, r) ==
  LET res == loadSessionFromDb(w)
  IN IF res.ok
       THEN getActivities(res.w, r)
       ELSE IF ~w.credentials
         THEN syncEnded(res.w, r, FALSE,
                "GARMIN_USERNAME and GARMIN_PASSWORD env vars required")
         ELSE [res.w EXCEPT !.runs[r].pc = "login",
                            !.runs[r].calls = Append(@, "login")]

(* ------------------------ SyncScheduler: runs -------------------------- *)

FreshRun(w) ==
  CHOOSE i \in RunIds :
    /\ i \notin DOMAIN w.runs
    /\ \A j \in RunIds : j < i => j \in DOMAIN w.runs

NewRun(via) ==
  [ via |-> via, pc |-> "onSync", events |-> << >>, onErrorCalls |-> << >>,
    logId |-> NoLog, svc |-> << >>, cookie |-> NoCookies, calls |-> << >>,
    acts |-> << >>, i |-> 0, today |-> 0, pending |-> {}, got |-> NoneGot,
    details |-> << >>, days |-> << >>,
    activitiesSynced |-> 0, daysSynced |-> 0 ]

\* this.onSync(): the callback runs up to its first await on I/O.
callOnSync(w, r) ==
  IF w.onSync = "stub" THEN w ELSE syncGarminData(w, r)

\* runSync without its guard `if (!this.isRunning) return`.
runSync_noGuard(w, via) ==
  LET r == FreshRun(w)
      w1 == [w EXCEPT !.runs = (r :> NewRun(via)) @@ @]
  IN callOnSync(emit(w1, r, "sync:start", NoError), r)

\* runSync up to `await this.onSync()`.
runSync(w, via) ==
  IF ~w.isRunning
    THEN w
    ELSE LET r == FreshRun(w)
             w1 == [w EXCEPT !.runs = (r :> NewRun(via)) @@ @]
         IN callOnSync(emit(w1, r, "sync:start", NoError), r)

triggerNow(w) ==
  LET w1 == IF w.timer # NoTimer
              THEN [clearTimeout(w, w.timer) EXCEPT !.timer = NoTimer]
              ELSE w
  IN runSync(w1, "trigger")

\* getStatus(): isSyncing is the literal false.
getStatus(w) ==
  [ enabled |-> w.isRunning,
    intervalMs |-> intervalMs,
    lastSyncAt |-> w.lastSyncAt,
    nextSyncAt |-> w.nextSyncAt,
    isSyncing |-> FALSE ]

(* --------------------------- HTTP handlers ----------------------------- *)

\* POST /sync up to the first await of syncGarminData.
postSync(w) ==
  LET logId == Len(w.sync_log) + 1
      w1 == [w EXCEPT !.sync_log =
               Append(@, [startedAt |-> w.now, endedAt |-> NoTime,
                          status |-> "running",
                          details |-> "Garmin sync started",
                          activities |-> 0, days |-> 0])]
      r == FreshRun(w1)
      w2 == [w1 EXCEPT !.runs =
               (r :> [NewRun("post") EXCEPT !.logId = logId]) @@ @]
  IN syncGarminData(w2, r)

\* GET /health: the state the handler leaves; the response reports
\* loadSessionFromDb(w).ok as garminAuthenticated.
getHealth(w) == loadSessionFromDb(w).w

(* ------------------------------ actions ------------------------------- *)

Tick ==
  /\ now + TickMs <= MaxNow
  /\ Commit([World EXCEPT !.now = now + TickMs])

Start ==
  /\ ~isRunning
  /\ Load(World) < MaxLoad
  /\ Commit(start(World))

StartAgain ==
  /\ isRunning
  /\ Commit(start(World))

Stop ==
  /\ isRunning
  /\ Commit(stop(World))

\* scheduler.triggerNow(), also as the handler of POST /scheduler/trigger.
TriggerNow ==
  /\ Load(World) < MaxLoad
  /\ Commit(triggerNow(World))

\* The callback of a due timer: () => this.runSync().
TimerFires ==
  \E t \in timeouts :
    /\ t.at <= now
    /\ Commit(runSync([World EXCEPT !.timeouts = @ \ {t}], "timer"))

OnSyncResolves ==
  \E r \in DOMAIN runs :
    /\ runs[r].pc = "onSync"
    /\ Commit(runSyncSettled(World, r, TRUE, NoError))

OnSyncRejects ==
  \E r \in DOMAIN runs, v \in Thrown :
    /\ runs[r].pc = "onSync"
    /\ Commit(runSyncSettled(World, r, FALSE, v))

PostSync ==
  /\ Load(World) < MaxLoad
  /\ Len(sync_log) < MaxLogs
  /\ Commit(postSync(World))

GetHealth ==
  /\ Commit(getHealth(World))

\* The first POST /sync the process receives.
FirstPostSync ==
  /\ sync_log = << >>
  /\ Commit(postSync(World))

LoginReturns ==
  \E r \in DOMAIN runs, outcome \in LoginOutcomes :
    /\ runs[r].pc = "login"
    /\ outcome = "ok" => issued < MaxCookies
    /\ Commit(loginReturned(World, r, outcome))

\* The service answers the activity-list fetch of r as svc says; what svc
\* holds beyond the answers the invocation asks for is what the service
\* would have answered to further fetches.
ActivitiesReturn ==
  \E r \in DOMAIN runs, svc \in ActivityScripts :
    /\ runs[r].pc = "activities"
    /\ Commit(activitiesReturned([World EXCEPT !.runs[r].svc = svc], r,
                                 svc[1], remote.activities))

DetailReturns ==
  \E r \in DOMAIN runs, resp \in Responses, write \in Writes(World) :
    /\ runs[r].pc = "detail"
    /\ Commit(detailReturned(received(World, r, resp), r,
                             IF resp = "ok" THEN "detail" ELSE "null", write))

SummaryReturns ==
  \E r \in DOMAIN runs, resp \in {"ok"} \cup remote.dailyFaults :
    /\ runs[r].pc = "summary"
    /\ LET day == (runs[r].today \div DAY_MS) - runs[r].i
       IN Commit(summaryReturned(received(World, r, resp), r,
                   IF resp = "ok" THEN remote.summary[day] ELSE "null"))

\* The payload of fetch f is f where the account has that data for the day.
SubFetchReturns ==
  \E r \in DOMAIN runs, resp \in {"ok"} \cup remote.dailyFaults :
    /\ runs[r].pc = "subs"
    /\ \E f \in runs[r].pending, write \in Writes(World) :
         LET day == (runs[r].today \div DAY_MS) - runs[r].i
         IN Commit(subReturned(received(World, r, resp), r, f,
                     IF resp = "ok" /\ f \in remote.subs[day]
                       THEN f ELSE "null", write))

(* --------------------------- specifications --------------------------- *)

\* A scheduler constructed as in the scheduler tests: onSync is any async
\* function, which resolves or rejects some time after it was called.
Init ==
  /\ now = 0
  /\ timeouts = {}
  /\ onSync = "stub"
  /\ onError \in BOOLEAN
  /\ isRunning = FALSE
  /\ timer = NoTimer
  /\ lastSyncAt = NoTime
  /\ nextSyncAt = NoTime
  /\ lastEvent = "none"
  /\ runs = NoRuns
  /\ finished = << >>
  /\ credentials = FALSE
  /\ meta = NoRows
  /\ sessionCookies = NoCookies
  /\ authed = FALSE
  /\ issued = 0
  /\ rejected = {}
  /\ activities = NoRows
  /\ daily_metrics = NoRows
  /\ sync_log = << >>
  /\ remote = EmptyAccount(<< >>)
  /\ windowDays = WindowDays
  /\ storage = "ok"

Next ==
  \/ Tick
  \/ Start
  \/ StartAgain
  \/ Stop
  \/ TriggerNow
  \/ TimerFires
  \/ OnSyncResolves
  \/ OnSyncRejects

Spec == Init /\ [][Next]_vars

\* The service process of index.ts with GARMIN_AUTO_SYNC_INTERVAL set, at
\* the instant its first scheduled run is due: the scheduler was constructed
\* with onSync = syncGarminData and started intervalMs ago, and no request
\* has arrived so far.  Requests, responses and the timer callback arrive
\* in any order at this reading of the clock.  The database may hold the
\* session of an earlier process; the account has no daily summaries.
SyncInit ==
  /\ now = intervalMs
  /\ onSync = "syncGarminData"
  /\ onError = TRUE
  /\ isRunning = TRUE
  /\ timer = 1
  /\ timeouts = {[id |-> 1, at |-> intervalMs]}
  /\ lastSyncAt = NoTime
  /\ nextSyncAt = intervalMs
  /\ lastEvent = "started"
  /\ runs = NoRuns
  /\ finished = << >>
  /\ credentials \in BOOLEAN
  /\ \/ /\ meta = NoRows
        /\ issued = 0
     \/ /\ meta = (SessionKey :> [cookies |-> 1, timestamp |-> 0])
        /\ issued = 1
  /\ sessionCookies = NoCookies
  /\ authed = FALSE
  /\ rejected = {}
  /\ activities = NoRows
  /\ daily_metrics = NoRows
  /\ sync_log = << >>
  /\ remote \in { EmptyAccount(list) : list \in ActivityLists }
  /\ windowDays = WindowDays
  /\ storage = "ok"

SyncNext ==
  \/ TriggerNow
  \/ TimerFires
  \/ PostSync
  \/ GetHealth
  \/ LoginReturns
  \/ ActivitiesReturn
  \/ DetailReturns
  \/ SummaryReturns

SyncSpec == SyncInit /\ [][SyncNext]_vars

\* The service process of index.ts without GARMIN_AUTO_SYNC_INTERVAL: no
\* scheduler is constructed, syncs are started by POST /sync only.  The
\* process is observed over the last clock step before MaxNow.  The
\* database may hold the session of an earlier process, which turns 7 days
\* old at MaxNow or one clock step earlier; the account has no daily
\* summaries, so that every pass of the daily loop is the same and the window
\* is one day.
PostInit ==
  /\ now = MaxNow - TickMs
  /\ onSync = "none"
  /\ onError = FALSE
  /\ isRunning = FALSE
  /\ timer = NoTimer
  /\ timeouts = {}
  /\ lastSyncAt = NoTime
  /\ nextSyncAt = NoTime
  /\ lastEvent = "none"
  /\ runs = NoRuns
  /\ finished = << >>
  /\ credentials \in BOOLEAN
  /\ \/ /\ meta = NoRows
        /\ issued = 0
     \/ /\ \E stored \in {MaxNow - SESSION_TTL, MaxNow - TickMs - SESSION_TTL} :
             meta = (SessionKey :> [cookies |-> 1, timestamp |-> stored])
        /\ issued = 1
  /\ sessionCookies = NoCookies
  /\ authed = FALSE
  /\ rejected = {}
  /\ activities = NoRows
  /\ daily_metrics = NoRows
  /\ sync_log = << >>
  /\ remote \in { EmptyAccount(list) : list \in ActivityLists }
  /\ windowDays = 1
  /\ storage = "ok"

PostNext ==
  \/ Tick
  \/ PostSync
  \/ GetHealth
  \/ LoginReturns
  \/ ActivitiesReturn
  \/ DetailReturns
  \/ SummaryReturns

PostSpec == PostInit /\ [][PostNext]_vars

\* One sync of the service process of index.ts, started by POST /sync, over
\* an account with daily data: the stored session is valid, the service
\* answers every daily fetch, and the database is empty or holds the rows an
\* earlier sync stored for activity 1 and for today.
DataInit ==
  /\ now = 0
  /\ onSync = "none"
  /\ onError = FALSE
  /\ isRunning = FALSE
  /\ timer = NoTimer
  /\ timeouts = {}
  /\ lastSyncAt = NoTime
  /\ nextSyncAt = NoTime
  /\ lastEvent = "none"
  /\ runs = NoRuns
  /\ finished = << >>
  /\ credentials = TRUE
  /\ meta = (SessionKey :> [cookies |-> 1, timestamp |-> 0])
  /\ issued = 1
  /\ sessionCookies = NoCookies
  /\ authed = FALSE
  /\ rejected = {}
  /\ \/ /\ activities = NoRows
        /\ daily_metrics = NoRows
     \/ /\ activities = (1 :> activityRow("detail"))
        /\ daily_metrics = (0 :> dailyRow([f \in SubFetches |-> f]))
  /\ sync_log = << >>
  /\ remote \in DataAccounts
  /\ windowDays = DataDays
  /\ storage \in {"ok", "failing"}

DataNext ==
  \/ FirstPostSync
  \/ ActivitiesReturn
  \/ DetailReturns
  \/ SummaryReturns
  \/ SubFetchReturns

DataSpec == DataInit /\ [][DataNext]_vars

\* An account whose daily summaries carry the date asked for or the date
\* before it, on a service that answers the daily fetches.
DateAccounts ==
  { [ activities |-> list,
      summary |-> t,
      subs |-> [d \in DataDayKeys |-> SubFetches],
      dailyFaults |-> {} ] :
    list \in ActivityLists,
    t \in [DataDayKeys -> {"null", "summary", "summaryOfDayBefore"}] }

\* One POST /sync over an empty database and an account of DateAccounts.
DateInit ==
  /\ now = 0
  /\ onSync = "none"
  /\ onError = FALSE
  /\ isRunning = FALSE
  /\ timer = NoTimer
  /\ timeouts = {}
  /\ lastSyncAt = NoTime
  /\ nextSyncAt = NoTime
  /\ lastEvent = "none"
  /\ runs = NoRuns
  /\ finished = << >>
  /\ credentials = TRUE
  /\ meta = (SessionKey :> [cookies |-> 1, timestamp |-> 0])
  /\ issued = 1
  /\ sessionCookies = NoCookies
  /\ authed = FALSE
  /\ rejected = {}
  /\ activities = NoRows
  /\ daily_metrics = NoRows
  /\ sync_log = << >>
  /\ remote \in DateAccounts
  /\ windowDays = DataDays
  /\ storage = "ok"

DateSpec == DateInit /\ [][DataNext]_vars

\* The activities table after a sync over account acc, with every fetch
\* answered, has upserted the first n activities of the list.
upsertedActivities(acc, n) ==
  [id \in { acc.activities[k] : k \in 1..n } |-> activityRow("detail")]

\* The daily_metrics table after that sync, started at time 0, has passed the
\* first n days of its window.
upsertedDaily(acc, n) ==
  [d \in { d \in DataDayKeys : d > 0 - n /\ acc.summary[d] # "null" } |->
     dailyRow([f \in SubFetches |-> IF f \in acc.subs[d] THEN f ELSE "null"])]

\* POST /sync of a process started over the database that an earlier
\* process left when it was stopped in the middle of a sync of the same
\* account: after some of its activities, or after all its activities and
\* some of its days (none at all, and all of them, included).
ResumeInit ==
  /\ now = 0
  /\ onSync = "none"
  /\ onError = FALSE
  /\ isRunning = FALSE
  /\ timer = NoTimer
  /\ timeouts = {}
  /\ lastSyncAt = NoTime
  /\ nextSyncAt = NoTime
  /\ lastEvent = "none"
  /\ runs = NoRuns
  /\ finished = << >>
  /\ credentials = TRUE
  /\ meta = (SessionKey :> [cookies |-> 1, timestamp |-> 0])
  /\ issued = 1
  /\ sessionCookies = NoCookies
  /\ authed = FALSE
  /\ rejected = {}
  /\ sync_log = << >>
  /\ remote \in DataAccounts
  /\ windowDays = DataDays
  /\ storage = "ok"
  /\ \/ \E n \in 0..Len(remote.activities) :
          /\ activities = upsertedActivities(remote, n)
          /\ daily_metrics = NoRows
     \/ \E n \in 1..DataDays :
          /\ activities = upsertedActivities(remote, Len(remote.activities))
          /\ daily_metrics = upsertedDaily(remote, n)

ResumeSpec == ResumeInit /\ [][DataNext]_vars

\* The scheduler of Spec under the scheduling of the event loop: the clock
\* advances, a due timer's callback runs, and every onSync call settles.
LiveSpec ==
  /\ Init
  /\ [][Next]_vars
  /\ WF_vars(Tick)
  /\ WF_vars(TimerFires)
  /\ WF_vars(OnSyncResolves \/ OnSyncRejects)

(* ------------------------------- claims ------------------------------- *)

SchedulerRuns == { r \in DOMAIN runs : runs[r].via \in {"timer", "trigger"} }

\* C1: at every moment at most one onSync call started by the scheduler
\* (by its timer or by triggerNow) is in flight.
C1_AtMostOneOnSync == Cardinality(SchedulerRuns) <= 1

\* C2: across POST /sync, POST /scheduler/trigger and the scheduler timer,
\* at most one execution of syncGarminData is in flight at any time.
C2_AtMostOneSync ==
  \A r1, r2 \in DOMAIN runs : r1 = r2

\* The calls of an invocation after its first SessionExpired.
AfterExpiry(calls) ==
  LET first == CHOOSE k \in 1..Len(calls) :
                 /\ calls[k] = "SessionExpired"
                 /\ \A j \in 1..(k - 1) : calls[j] # "SessionExpired"
  IN SubSeq(calls, first + 1, Len(calls))

Count(seq, x) == Cardinality({ k \in 1..Len(seq) : seq[k] = x })

\* C3: an invocation whose activity-list fetch is answered 401/403 once and
\* would be answered 200 after re-authentication ends successfully, with
\* exactly one login made because of the expiry.
C3_RetryAfterExpiry ==
  \A k \in 1..Len(finished) :
    LET f == finished[k]
    IN (/\ f.svc = <<"unauthorized", "ok">>
        /\ Count(f.calls, "SessionExpired") >= 1
        /\ Count(f.calls, "loginFailed") = 0)
       => /\ f.outcome = "resolved"
          /\ Count(AfterExpiry(f.calls), "login") = 1

C5_RejectedSessionAbsent ==
  (/\ SessionKey \in DOMAIN meta
   /\ meta[SessionKey].cookies \in rejected)
  => ~loadSessionFromDb(World).ok

\* C6: every invocation of syncGarminData in flight, started by POST /sync
\* or by the scheduler, has its own sync_log entry, with status running.
C6_EveryInvocationLogged ==
  /\ \A r \in DOMAIN runs :
       /\ runs[r].logId \in 1..Len(sync_log)
       /\ sync_log[runs[r].logId].status = "running"
  /\ \A r1, r2 \in DOMAIN runs : runs[r1].logId = runs[r2].logId => r1 = r2

\* C7: a sync_log entry whose invocation has returned or thrown is closed:
\* its status is success or error and its endedAt is set.
C7_LogClosedWhenEnded ==
  \A id \in 1..Len(sync_log) :
    (\A r \in DOMAIN runs : runs[r].logId # id)
    => /\ sync_log[id].status \in {"success", "error"}
       /\ sync_log[id].endedAt # NoTime

\* An entry was closed with status error and another with status success.
C7_Witness ==
  /\ \E id \in 1..Len(sync_log) :
       /\ sync_log[id].status = "error"
       /\ sync_log[id].endedAt # NoTime
       /\ \A r \in DOMAIN runs : runs[r].logId # id
  /\ \E id \in 1..Len(sync_log) : sync_log[id].status = "success"

\* C8: when a run started by triggerNow() fails on an enabled scheduler, the
\* scheduler is enabled afterwards, the timer of the next run is pending,
\* and nextSyncAt is the completion time plus intervalMs.
C8_FailedRunReschedules ==
  [][ \A r \in DOMAIN runs :
        (/\ runs[r].via = "trigger"
         /\ isRunning
         /\ r \notin DOMAIN runs'
         /\ finished'[1].outcome = "rejected")
        => /\ isRunning'
           /\ nextSyncAt' = now + intervalMs
           /\ \E t \in timeouts' : t.id = timer' /\ t.at = nextSyncAt' ]_vars

\* A triggered run has just failed at a time after 0 and the next run is
\* scheduled intervalMs later.
C8_Witness ==
  /\ finished # << >>
  /\ finished[1].via = "trigger"
  /\ finished[1].outcome = "rejected"
  /\ lastEvent = "sync:error"
  /\ isRunning
  /\ now > 0
  /\ nextSyncAt = now + intervalMs
  /\ \E t \in timeouts : t.id = timer /\ t.at = nextSyncAt

\* C9: while the scheduler stays enabled, after every completed run,
\* successful or failed, another run starts (within the clock's range).
C9_RunsKeepOccurring ==
  (/\ lastEvent \in {"sync:success", "sync:error"}
   /\ isRunning
   /\ now + intervalMs <= MaxNow)
  ~> (lastEvent = "sync:start" \/ ~isRunning)

\* After a failed run, the timer has started the next run.
C9_Witness ==
  /\ finished # << >>
  /\ finished[1].outcome = "rejected"
  /\ lastEvent = "sync:start"
  /\ isRunning
  /\ \E r \in DOMAIN runs : runs[r].via = "timer"

\* C10: when onSync rejects or throws in a run, runSync does not reject:
\* 'sync:error' is emitted with the error, onError (if given) is called
\* exactly once with that error, and 'sync:success' is not emitted.  The
\* error reported is the thrown value, as new Error(String(value)) when the
\* value is not an Error.
C10_ErrorsReported ==
  \A k \in 1..Len(finished) :
    LET f == finished[k]
    IN (f.via \in {"timer", "trigger"} /\ f.outcome = "rejected")
       => /\ f.settled = "fulfilled"
          /\ f.events = << [name |-> "sync:start", error |-> NoError],
                           [name |-> "sync:error", error |-> toError(f.error)] >>
          /\ f.onErrorCalls = IF onError THEN << toError(f.error) >> ELSE << >>

\* A run whose onSync threw a value that is not an Error has ended, with
\* onError configured.
C10_Witness ==
  /\ finished # << >>
  /\ finished[1].outcome = "rejected"
  /\ ~finished[1].error.isError
  /\ onError
  /\ Len(finished[1].onErrorCalls) = 1

\* C11: when a scheduler run completes, whether onSync resolved or rejected,
\* the lastSyncAt that getStatus() reports is the completion time.
C11_LastSyncAtOnCompletion ==
  [][ \A r \in SchedulerRuns :
        r \notin DOMAIN runs' => lastSyncAt' = now ]_vars

\* C12: start() on an enabled scheduler, with a timer pending or a run
\* executing, changes nothing: no timer is armed, nextSyncAt stays, no
\* 'started' event is emitted and no onSync is invoked.
C12_StartWhenEnabledIsNoOp ==
  isRunning => start(World) = World

\* The scheduler is enabled, a run is executing, a timer is pending and the
\* last event is not 'started'.
C12_Witness ==
  /\ isRunning
  /\ DOMAIN runs # {}
  /\ timeouts # {}
  /\ lastEvent = "sync:start"

\* C13: stop() on an enabled scheduler leaves no timer pending, disables
\* the scheduler, sets nextSyncAt to null and emits 'stopped', and leaves
\* the runs in flight alone; a run that completes, stopped or not, has
\* emitted 'sync:success' or 'sync:error' last.
C13_StopCancelsTimerOnly ==
  [][ /\ (isRunning /\ ~isRunning')
         => /\ timeouts' = {}
            /\ nextSyncAt' = NoTime
            /\ lastEvent' = "stopped"
            /\ runs' = runs
      /\ \A r \in SchedulerRuns :
           r \notin DOMAIN runs'
           => LET events == finished'[1].events
              IN /\ events # << >>
                 /\ events[Len(events)].name \in {"sync:success", "sync:error"}
    ]_vars

\* C14: triggerNow() called while no run is executing, on an enabled or a
\* disabled scheduler, leaves no timer pending and begins exactly one run:
\* 'sync:start' is emitted and onSync is invoked once.
C14_TriggerNowStartsOneRun ==
  SchedulerRuns = {}
  => LET w == triggerNow(World)
     IN /\ w.timeouts = {}
        /\ Cardinality(DOMAIN w.runs) = 1
        /\ \A r \in DOMAIN w.runs :
             /\ w.runs[r].via = "trigger"
             /\ w.runs[r].pc = "onSync"
             /\ w.runs[r].events = << [name |-> "sync:start", error |-> NoError] >>

\* C15: the in-flight flag of getStatus() (isSyncing) is true exactly while
\* an onSync invocation started by the scheduler has not completed.
C15_IsSyncingWhileInFlight ==
  getStatus(World).isSyncing <=> (SchedulerRuns # {})

\* The age of the stored session, in milliseconds.
SessionAge == now - meta[SessionKey].timestamp

\* C16: the session check reports a stored session valid if and only if
\* now - createdAt < 7 days: valid at 7 days minus 1 second, absent at
\* exactly 7 days and at 7 days plus 1 second.
C16_SessionValidUnder7Days ==
  LET valid == loadSessionFromDb(World).ok
      sevenDays == 7 * 24 * 60 * 60 * 1000
  IN /\ SessionKey \notin DOMAIN meta => ~valid
     /\ SessionKey \in DOMAIN meta
          => /\ valid <=> SessionAge < sevenDays
             /\ SessionAge = sevenDays - 1000 => valid
             /\ SessionAge \in {sevenDays, sevenDays + 1000} => ~valid

\* A sync has found the stored session exactly 7 days old, logged in and the
\* login failed: the stored session is still the one of exactly 7 days.
C16_Witness ==
  /\ SessionKey \in DOMAIN meta
  /\ SessionAge = SESSION_TTL
  /\ finished # << >>
  /\ Count(finished[1].calls, "login") = 1
  /\ Count(finished[1].calls, "loginFailed") = 1

\* What table t holds for key d: whether it has a row, and the row.
RowOf(t, d) ==
  [ present |-> d \in DOMAIN t,
    row |-> IF d \in DOMAIN t THEN t[d] ELSE dailyRow(NoneGot) ]

\* C17: in every step of a sync, each day whose summary fetch returned
\* absent in that step keeps its daily_metrics row as it was (none, or the
\* row of an earlier sync), and daysSynced never exceeds the number of days
\* whose summary returned present; whether the account has sleep, HRV,
\* body-battery or stress data for the day makes no difference.
C17_AbsentSummarySkipsDay ==
  [][ \A r \in DOMAIN runs :
        LET before == runs[r]
            after == IF r \in DOMAIN runs' THEN runs'[r] ELSE finished'[1]
            fetched == (Len(before.days) + 1)..Len(after.days)
        IN /\ \A k \in fetched :
                after.days[k].summary = "null"
                => RowOf(daily_metrics', after.days[k].day)
                     = RowOf(daily_metrics, after.days[k].day)
           /\ after.daysSynced
                <= Cardinality({ k \in 1..Len(after.days) :
                                  after.days[k].summary # "null" })
    ]_vars

\* A sync has ended whose summary fetch for today returned absent although
\* the account has the other data of today: the row an earlier sync stored
\* for today is still there, and the two other days were counted.
C17_Witness ==
  /\ finished # << >>
  /\ finished[1].outcome = "resolved"
  /\ finished[1].days[1] = [day |-> 0, summary |-> "null", got |-> NoneGot]
  /\ remote.subs[0] = SubFetches
  /\ 0 \in DOMAIN daily_metrics
  /\ daily_metrics[0] = dailyRow([f \in SubFetches |-> f])
  /\ finished[1].daysSynced = 2

\* What the fetch f of day d returns from a service that answers.
Fetched(d, f) == IF f \in remote.subs[d] THEN f ELSE "null"

\* The account has full data for today, a summary and everything but sleep
\* data for yesterday, and no summary for the day before.
ThreeDayScenario ==
  /\ windowDays = 3
  /\ remote.summary[0] = "summary" /\ remote.subs[0] = SubFetches
  /\ remote.summary[-1] = "summary" /\ remote.subs[-1] = SubFetches \ {"sleep"}
  /\ remote.summary[-2] = "null"

ActivityRecords == { <<id, detail>> : id \in {1, 2}, detail \in {"detail", "null"} }
DailyRecords ==
  { <<day, [f \in SubFetches |-> IF f \in S THEN f ELSE "null"]>> :
      day \in DataDayKeys, S \in SUBSET SubFetches }
SessionRecords == { [cookies |-> c, timestamp |-> now] : c \in 1..MaxCookies }

\* C19: applying the same activity record, daily-metric record or session
\* record twice through its upsert leaves the store in exactly the state
\* of applying it once: the key has its one row, with the same values, and
\* no other store has changed.
C19_UpsertIdempotent ==
  /\ \A R \in ActivityRecords :
       LET once == insertActivity(World, R[1], R[2])
       IN /\ insertActivity(once, R[1], R[2]) = once
          /\ once.activities[R[1]] = activityRow(R[2])
  /\ \A R \in DailyRecords :
       LET once == insertDaily(World, R[1], R[2])
       IN /\ insertDaily(once, R[1], R[2]) = once
          /\ once.daily_metrics[R[1]] = dailyRow(R[2])
  /\ \A R \in SessionRecords :
       LET once == insertMeta(World, SessionKey, R)
       IN /\ insertMeta(once, SessionKey, R) = once
          /\ once.meta[SessionKey] = R

\* A sync has returned that upserted activity 1 with its detail and today's
\* row with full data, over a database that had no rows before or the same
\* rows.
C19_Witness ==
  /\ finished # << >>
  /\ finished[1].outcome = "resolved"
  /\ finished[1].details = <<"detail">>
  /\ activities = (1 :> activityRow("detail"))
  /\ 0 \in DOMAIN daily_metrics
  /\ daily_metrics[0] = dailyRow([f \in SubFetches |-> f])

\* C20: an upsert on a key that already has a row replaces every column
\* with the new record's value: after a step that upserts an activity, its
\* row is the record's row, with null detail columns when the detail fetch
\* was absent even if an earlier sync stored them; after a step that
\* upserts a day, each column group of its row is what this sync fetched,
\* null where the fetch was absent.
C20_UpsertReplacesRow ==
  [][ \A r \in DOMAIN runs :
        LET before == runs[r]
            after == IF r \in DOMAIN runs' THEN runs'[r] ELSE finished'[1]
        IN /\ \A k \in (Len(before.details) + 1)..Len(after.details) :
                LET id == remote.activities[k]
                IN /\ activities'[id] = activityRow(after.details[k])
                   /\ after.details[k] = "null" => activities'[id].detail = "null"
           /\ after.daysSynced = before.daysSynced + 1
                => LET e == after.days[Len(before.days)]
                   IN /\ daily_metrics'[e.day] = dailyRow(e.got)
                      /\ \A f \in SubFetches :
                           e.got[f] = "null" => daily_metrics'[e.day][f] = "null"
    ]_vars

\* Over a database that held activity 1 with its detail and today's full
\* row, the sync has upserted activity 1 without detail, before its daily
\* loop wrote any day: the stored detail is null.
C20_Witness ==
  \E r \in DOMAIN runs :
    /\ runs[r].details = <<"null">>
    /\ runs[r].days = << >>
    /\ 0 \in DOMAIN daily_metrics
    /\ activities[1].detail = "null"

\* The message of the error thrown for missing credentials.
ConfigurationError == "GARMIN_USERNAME and GARMIN_PASSWORD env vars required"

\* C21: a POST /sync that finds no valid stored session while the username
\* or the password is not configured ends at once with the configuration
\* error: login and the fetches are not called, and the activities and
\* daily_metrics tables are as they were.
C21_ConfigurationErrorFailsFast ==
  [][ (/\ Len(sync_log') > Len(sync_log)
       /\ ~loadSessionFromDb(World).ok
       /\ ~credentials)
      => /\ finished' # << >>
         /\ finished'[1].logId = Len(sync_log')
         /\ finished'[1].outcome = "rejected"
         /\ finished'[1].error.message = ConfigurationError
         /\ finished'[1].calls = << >>
         /\ finished'[1].details = << >>
         /\ finished'[1].days = << >>
         /\ activities' = activities
         /\ daily_metrics' = daily_metrics
    ]_vars

\* A POST /sync without credentials has ended with the configuration error
\* over a stored session that is 7 days old.
C21_Witness ==
  /\ finished # << >>
  /\ finished[1].via = "post"
  /\ finished[1].error.message = ConfigurationError
  /\ ~credentials
  /\ SessionKey \in DOMAIN meta
  /\ ~loadSessionFromDb(World).ok

\* C22: a sync whose login fails (no ticket, no session cookie, transport
\* error) ends in that step with the authentication error after exactly one
\* login call, with no fetch issued and the activities, daily_metrics and
\* meta tables as they were; a sync whose login succeeds goes on to the
\* activity list after that one call; and every later POST /sync that finds
\* no valid stored session calls login again.
C22_LoginFailureIsTerminal ==
  [][ /\ \A r \in DOMAIN runs :
           (runs[r].pc = "login" /\ r \notin DOMAIN runs')
           => /\ finished'[1].calls = <<"login", "loginFailed">>
              /\ finished'[1].outcome = "rejected"
              /\ finished'[1].error.message = "Garmin authentication failed"
              /\ activities' = activities
              /\ daily_metrics' = daily_metrics
              /\ meta' = meta
      /\ \A r \in DOMAIN runs \cap DOMAIN runs' :
           (runs[r].pc = "login" /\ runs'[r] # runs[r])
           => /\ runs'[r].pc = "activities"
              /\ runs'[r].calls = <<"login", "getActivities">>
      /\ (/\ Len(sync_log') > Len(sync_log)
          /\ ~loadSessionFromDb(World).ok
          /\ credentials)
         => \E r \in DOMAIN runs' \ DOMAIN runs :
              /\ runs'[r].pc = "login"
              /\ runs'[r].calls = <<"login">>
    ]_vars

\* A sync has ended with the authentication error after one login call, and
\* a POST /sync received after its end is at its own login call.
C22_Witness ==
  /\ finished # << >>
  /\ finished[1].calls = <<"login", "loginFailed">>
  /\ finished[1].error.message = "Garmin authentication failed"
  /\ \E r \in DOMAIN runs :
       /\ runs[r].pc = "login"
       /\ runs[r].calls = <<"login">>
       /\ sync_log[runs[r].logId].startedAt > sync_log[finished[1].logId].endedAt

\* C23: every fetch of a sync that is answered 401/403 (here: the answer
\* that first rejects the cookies the fetch carried) signals SessionExpired
\* to syncGarminData, the best-effort fetches of the activity detail, the
\* daily summary, HRV, sleep, body battery and stress included.
C23_Every401SignalsSessionExpired ==
  [][ \A r \in DOMAIN runs :
        LET before == runs[r]
            after == IF r \in DOMAIN runs' THEN runs'[r] ELSE finished'[1]
        IN (/\ before.pc \in {"activities", "detail", "summary", "subs"}
            /\ r \in DOMAIN runs' => runs'[r] # runs[r]
            /\ before.cookie \notin rejected
            /\ before.cookie \in rejected')
           => Count(after.calls, "SessionExpired")
                = Count(before.calls, "SessionExpired") + 1
    ]_vars

\* C24: checking the validity of the session (loadSessionFromDb, called by
\* the sync and by GET /health) changes no state: the stored session record,
\* the client's cookies and its authenticated flag are after the call what
\* they were before it.
C24_SessionCheckChangesNothing ==
  LET after == loadSessionFromDb(World).w
  IN /\ after.meta = meta
     /\ after.sessionCookies = sessionCookies
     /\ after.authed = authed
     /\ getHealth(World) = World

\* C25: over the database left by a sync that stopped after some of its
\* upserts (or after none: the uninterrupted sync), a sync of the same
\* account whose fetches are all answered ends with the activities and
\* daily_metrics tables of a complete sync of that account, whatever the
\* point at which the earlier sync stopped.
C25_RerunCompletesPartialSync ==
  \A n \in 1..Len(finished) :
    LET f == finished[n]
    IN (/\ f.outcome = "resolved"
        /\ \A k \in 1..Len(f.details) : f.details[k] = "detail")
       => /\ activities = upsertedActivities(remote, Len(remote.activities))
          /\ daily_metrics = upsertedDaily(remote, DataDays)

\* The earlier sync stopped after today's row and before yesterday's, which
\* the account has data for; the sync has upserted activity 1 again and is
\* at its fetch of today's summary.
C25_Witness ==
  \E r \in DOMAIN runs :
    /\ runs[r].pc = "summary"
    /\ runs[r].i = 0
    /\ runs[r].details = <<"detail">>
    /\ activities = upsertedActivities(remote, 1)
    /\ 0 \in DOMAIN daily_metrics
    /\ -1 \notin DOMAIN daily_metrics
    /\ remote.summary[-1] # "null"

\* C26: a transport failure of a mandatory fetch aborts only its item.  A
\* sync whose activity-list fetch failed still passes every day of its daily
\* window, as does a sync in which the summary fetch of a day failed, and a
\* sync ends in error only if the activity list and every day's summary
\* failed.
C26_MandatoryFailureAbortsItemOnly ==
  \A n \in 1..Len(finished) :
    LET f == finished[n]
    IN f.svc \in { <<"ok">>, <<"apierror">> }
       => /\ Len(f.days) = windowDays
          /\ f.outcome = "rejected"
               => /\ f.svc = <<"apierror">>
                  /\ \A k \in 1..Len(f.days) : f.days[k].summary = "null"

\* C27: the sync_log entry of a POST /sync is running while its sync is in
\* flight; it is closed with status success and the counts of activities and
\* days the sync returned exactly when the sync returned, and with status
\* error and the message of the thrown error, which is the error the handler
\* answers with, exactly when it threw, a throwing insert included.
C27_LogEntryTellsOutcome ==
  /\ \A r \in DOMAIN runs :
       runs[r].via = "post" => sync_log[runs[r].logId].status = "running"
  /\ \A n \in 1..Len(finished) :
       LET f == finished[n]
           entry == sync_log[f.logId]
       IN f.via = "post"
          => /\ entry.endedAt # NoTime
             /\ entry.status \in {"success", "error"}
             /\ entry.status = "success" <=> f.outcome = "resolved"
             /\ entry.status = "error" <=> f.outcome = "rejected"
             /\ f.outcome = "resolved"
                  => /\ entry.details = "Synced"
                     /\ entry.activities = f.activitiesSynced
                     /\ entry.days = f.daysSynced
             /\ f.outcome = "rejected"
                  => /\ f.error.message # ""
                     /\ entry.details = f.error.message

\* A sync has upserted its activity and thrown at the insert of a day's row:
\* its entry is closed with status error and the storage error's message.
C27_Witness ==
  /\ finished # << >>
  /\ finished[1].outcome = "rejected"
  /\ finished[1].error.message = StorageError
  /\ finished[1].activitiesSynced = 1
  /\ sync_log[finished[1].logId].status = "error"
  /\ sync_log[finished[1].logId].details = StorageError

\* The names of the events a run has emitted, in order.
EventNames(events) == [k \in 1..Len(events) |-> events[k].name]

\* C28: a scheduler run has emitted 'sync:start' and nothing else while its
\* onSync is in flight, and when it has ended it has emitted 'sync:start' and
\* then one more event: 'sync:success' if onSync resolved, 'sync:error' if it
\* rejected.
C28_RunEventsInOrder ==
  /\ \A r \in SchedulerRuns : EventNames(runs[r].events) = <<"sync:start">>
  /\ \A n \in 1..Len(finished) :
       LET f == finished[n]
       IN f.via \in {"timer", "trigger"}
          => EventNames(f.events) =
               <<"sync:start",
                 IF f.outcome = "resolved" THEN "sync:success" ELSE "sync:error">>

\* A run started by the timer has ended with 'sync:error' while a run started
\* by triggerNow has emitted its 'sync:start'.
C28_Witness ==
  /\ finished # << >>
  /\ finished[1].via = "timer"
  /\ EventNames(finished[1].events) = <<"sync:start", "sync:error">>
  /\ \E r \in SchedulerRuns :
       /\ runs[r].via = "trigger"
       /\ EventNames(runs[r].events) = <<"sync:start">>

\* C29: getStatus().enabled is false for a newly constructed scheduler;
\* it is true after every start() and false after every stop(), whatever the
\* calls before, and nothing but these two calls changes it: it is true
\* exactly when the last of the start() and stop() calls was start().
C29_EnabledIffLastCallWasStart ==
  /\ ~getStatus(World).enabled
  /\ [](/\ getStatus(start(World)).enabled
        /\ ~getStatus(stop(World)).enabled)
  /\ [][ /\ (Start \/ StartAgain) => getStatus(World)'.enabled
         /\ Stop => ~getStatus(World)'.enabled
         /\ ~(Start \/ StartAgain \/ Stop)
              => getStatus(World)'.enabled = getStatus(World).enabled
     ]_vars

\* start() was called after a stop() that followed the end of a run: the
\* last event is 'started', later than the 'sync:success' or 'sync:error' of
\* the ended run, and the scheduler is enabled.
C29_Witness ==
  /\ getStatus(World).enabled
  /\ lastEvent = "started"
  /\ finished # << >>

\* The timer-started runs of a step.
NewTimerRuns == { r \in DOMAIN runs' \ DOMAIN runs : runs'[r].via = "timer" }

\* C30: start() on a stopped scheduler arms one timer for intervalMs, sets
\* nextSyncAt to now + intervalMs, emits 'started' and invokes no onSync; and
\* while 'started' is the last event, no timer invokes onSync before the
\* timer that start() armed is due.
C30_StartArmsOneTimer ==
  [][ /\ Start
         => /\ \E t \in timeouts' \ timeouts :
                 /\ timeouts' = timeouts \cup {t}
                 /\ t.at = now + intervalMs
                 /\ timer' = t.id
            /\ getStatus(World)'.nextSyncAt = now + intervalMs
            /\ lastEvent' = "started"
            /\ runs' = runs
      /\ (lastEvent = "started" /\ NewTimerRuns # {}) => now >= nextSyncAt
    ]_vars

\* C31: when a run completes on a scheduler that stop() has disabled, no
\* next run is scheduled: the completion arms no timer and leaves nextSyncAt
\* null, and as long as start() is not called no timer is armed and
\* nextSyncAt stays null.
C31_NoRescheduleAfterStop ==
  [][ /\ \A r \in SchedulerRuns :
           (~isRunning /\ r \notin DOMAIN runs')
           => /\ timeouts' = timeouts
              /\ timer' = timer
              /\ nextSyncAt = NoTime
              /\ getStatus(World)'.nextSyncAt = NoTime
      /\ (~isRunning /\ ~isRunning')
         => /\ timeouts' \subseteq timeouts
            /\ getStatus(World)'.nextSyncAt = NoTime
    ]_vars

\* A run has completed after stop() was called during it: its event is the
\* last one, the scheduler is disabled, no timer is pending and nextSyncAt is
\* null.
C31_Witness ==
  /\ ~isRunning
  /\ finished # << >>
  /\ lastEvent \in {"sync:success", "sync:error"}
  /\ timeouts = {}
  /\ nextSyncAt = NoTime

\* The days among the first n the sync has passed whose summary was present.
PresentDays(run, n) == { k \in 1..n : run.days[k].summary # "null" }

\* C32: in the daily window the days are processed one after another, today
\* first.  While the summary fetch of a day is in flight, every earlier day
\* of the window has been skipped or upserted and counted and none of its
\* fetches is outstanding; while sub-fetches of a day are outstanding, that
\* day's summary has been returned present, its row is not yet counted, and
\* the row is written only when the last of the four has returned.
C32_DaysOneAfterAnother ==
  \A r \in DOMAIN runs :
    LET run == runs[r]
    IN /\ \A k \in 1..Len(run.days) :
            run.days[k].day = dateStr(World, r, k - 1)
       /\ run.pc = "summary"
            => /\ Len(run.days) = run.i
               /\ run.pending = {}
               /\ run.daysSynced = Cardinality(PresentDays(run, run.i))
               /\ \A k \in PresentDays(run, run.i) :
                    /\ run.days[k].day \in DOMAIN daily_metrics
                    /\ daily_metrics[run.days[k].day] = dailyRow(run.days[k].got)
       /\ run.pc = "subs"
            => /\ Len(run.days) = run.i + 1
               /\ run.days[run.i + 1].summary # "null"
               /\ run.pending # {}
               /\ run.pending \subseteq SubFetches
               /\ \A f \in run.pending : run.got[f] = "null"
               /\ run.daysSynced = Cardinality(PresentDays(run, run.i))
       /\ run.pc \notin {"summary", "subs"} => run.pending = {}

\* The summary fetch of the third day of the window is in flight after the
\* first day was upserted and the second skipped.
C32_Witness ==
  \E r \in DOMAIN runs :
    /\ runs[r].pc = "summary"
    /\ runs[r].i = 2
    /\ runs[r].days[1].summary # "null"
    /\ runs[r].days[2].summary = "null"
    /\ runs[r].daysSynced = 1

\* The pcs at which an invocation waits for the answer to a fetch.
FetchPcs == {"activities", "detail", "summary", "subs"}

\* C33: the phases of one invocation of syncGarminData come in a fixed order.
\* It waits for login only before any fetch; the activity list is fetched
\* right after the session check succeeded or right after login succeeded;
\* while a detail fetch is in flight exactly the activities before it have
\* been written and no day has been asked for; while a fetch of the daily
\* window is in flight every fetched activity has been written and counted;
\* and every fetch in flight carries the cookies of a session.
C33_PhasesInOrder ==
  \A r \in DOMAIN runs :
    LET run == runs[r]
    IN /\ run.pc = "login"
            => /\ run.calls = <<"login">>
               /\ run.acts = << >> /\ run.details = << >> /\ run.days = << >>
       /\ run.pc \in FetchPcs
            => /\ run.calls \in {<<"getActivities">>, <<"login", "getActivities">>}
               /\ run.cookie \in 1..issued
       /\ run.pc = "activities"
            => run.acts = << >> /\ run.details = << >> /\ run.days = << >>
       /\ run.pc = "detail"
            => /\ run.i \in 1..Len(run.acts)
               /\ Len(run.details) = run.i - 1
               /\ run.activitiesSynced = run.i - 1
               /\ \A k \in 1..(run.i - 1) : run.acts[k] \in DOMAIN activities
               /\ run.days = << >>
       /\ run.pc \in {"summary", "subs"}
            => /\ Len(run.details) = Len(run.acts)
               /\ run.activitiesSynced = Len(run.acts)
               /\ \A k \in 1..Len(run.acts) : run.acts[k] \in DOMAIN activities

\* After a login, the activity list and the detail of its one activity, the
\* summary fetch of the first day is in flight.
C33_Witness ==
  \E r \in DOMAIN runs :
    /\ runs[r].pc = "summary"
    /\ runs[r].calls = <<"login", "getActivities">>
    /\ runs[r].acts = <<1>>
    /\ runs[r].details = <<"detail">>
    /\ 1 \in DOMAIN activities

\* C34: every activity of the fetched list is upserted once and counted,
\* with or without detail.  In the step in which the detail fetch of an
\* activity returns, unless the write itself throws, the activity's row is
\* written with the detail returned (null columns when it was absent), it is
\* counted once, and the sync goes on or resolves; a sync that resolved has
\* upserted and counted every activity of the list.
C34_EveryActivityUpserted ==
  [][ \A r \in DOMAIN runs :
        LET before == runs[r]
            after == IF r \in DOMAIN runs' THEN runs'[r] ELSE finished'[1]
            failed == r \notin DOMAIN runs' /\ after.outcome = "rejected"
        IN /\ (before.pc = "detail" /\ runs' # runs)
                => \/ /\ storage = "failing"
                      /\ failed
                      /\ after.error.message = StorageError
                      /\ activities' = activities
                   \/ /\ ~failed
                      /\ Len(after.details) = Len(before.acts)
                           \/ (r \in DOMAIN runs' /\ after.pc = "detail"
                                 /\ Len(after.details) = Len(before.details) + 1)
                      /\ after.details[before.i] \in {"detail", "null"}
                      /\ \A k \in before.i..Len(after.details) :
                           /\ before.acts[k] \in DOMAIN activities'
                           /\ activities'[before.acts[k]] = activityRow(after.details[k])
                      /\ after.activitiesSynced - before.activitiesSynced
                           = Len(after.details) - Len(before.details)
                      /\ \A id \in DOMAIN activities :
                           id \notin { before.acts[k] : k \in before.i..Len(after.details) }
                             => activities'[id] = activities[id]
           /\ (r \notin DOMAIN runs' /\ after.outcome = "resolved")
                => /\ after.activitiesSynced = Len(remote.activities)
                   /\ Len(after.details) = Len(remote.activities)
                   /\ \A k \in 1..Len(remote.activities) :
                        activities'[remote.activities[k]] = activityRow(after.details[k])
    ]_vars

\* A sync over an account with one activity whose detail fetch was absent
\* has resolved: the activity is counted and its row has null detail columns.
C34_Witness ==
  /\ finished # << >>
  /\ finished[1].outcome = "resolved"
  /\ remote.activities = <<1>>
  /\ finished[1].details = <<"null">>
  /\ finished[1].activitiesSynced = 1
  /\ activities[1] = activityRow("null")

\* C35: when a sync over an empty daily_metrics table has resolved,
\* daysSynced is the number of days of the window whose summary was present,
\* each of those days has a row under its own date, and daysSynced is the
\* number of rows of the table.
C35_DaysSyncedCountsRows ==
  (finished # << >> /\ finished[1].outcome = "resolved")
    => LET f == finished[1]
           present == { k \in 1..Len(f.days) : f.days[k].summary # "null" }
       IN /\ f.daysSynced = Cardinality(present)
          /\ \A k \in present : f.days[k].day \in DOMAIN daily_metrics
          /\ f.daysSynced = Cardinality(DOMAIN daily_metrics)

\* C36: at most one timer of the scheduler is pending at any time.
C36_AtMostOneTimerPending ==
  \A a, b \in timeouts : a = b

\* C37: while the scheduler is disabled no invocation of onSync begins: a
\* step taken from a state in which isRunning is false adds no run, whether
\* it is a timer callback, triggerNow() or any other operation but start().
C37_NoRunBeginsWhileDisabled ==
  [][ ~isRunning
        => /\ DOMAIN runs' \subseteq DOMAIN runs
           /\ lastEvent' = "sync:start" => lastEvent = "sync:start" ]_vars

\* The scheduler is disabled, no run is in flight, and a timer that stop()
\* did not clear is due: its callback is about to call runSync.
C37_Witness ==
  /\ ~isRunning
  /\ runs = NoRuns
  /\ \E t \in timeouts : t.at <= now

\* C38: nextSyncAt is null whenever the scheduler is disabled, and whenever
\* it is not null a timer is pending that fires at that time.
C38_NextSyncAtHasItsTimer ==
  /\ ~isRunning => nextSyncAt = NoTime
  /\ nextSyncAt # NoTime => \E t \in timeouts : t.at = nextSyncAt

\* C39: no request is sent with cookies that the service has rejected with
\* 401/403: in every step in which an invocation sends a request, to wait
\* for its answer, the cookies the request carries are not rejected ones.
C39_NoRequestWithRejectedCookies ==
  [][ \A r \in DOMAIN runs' :
        (/\ runs'[r].pc \in FetchPcs
         /\ \/ r \notin DOMAIN runs
            \/ runs[r].pc # runs'[r].pc
            \/ runs[r].i # runs'[r].i)
          => runs'[r].cookie \notin rejected' ]_vars

\* C40: a login that fails leaves the stored session record as it was; the
\* record changes only in a step in which a login's handshake yielded
\* cookies, and then the one record of the table holds those cookies and the
\* current time.
C40_FailedLoginKeepsStoredSession ==
  [][ /\ \A r \in DOMAIN runs :
           (runs[r].pc = "login" /\ r \notin DOMAIN runs')
             => /\ finished'[1].calls = <<"login", "loginFailed">>
                /\ meta' = meta
      /\ meta' # meta
           => /\ \E r \in DOMAIN runs \cap DOMAIN runs' :
                   /\ runs[r].pc = "login"
                   /\ runs'[r].calls = <<"login", "getActivities">>
              /\ issued' = issued + 1
              /\ sessionCookies' = issued'
              /\ meta' = (SessionKey :> [cookies |-> issued', timestamp |-> now])
    ]_vars

\* Over a stored session that had expired, a login failed and left the
\* record as it was.
C40_Witness ==
  /\ finished # << >>
  /\ finished[1].calls = <<"login", "loginFailed">>
  /\ SessionKey \in DOMAIN meta
  /\ meta[SessionKey] = [cookies |-> 1, timestamp |-> MaxNow - TickMs - SESSION_TTL]

====
